---------------------------- MODULE Spec2Model ----------------------------
(***************************************************************************)
(* Model of src/app.py: the rule-based password checker                    *)
(* check_password_strength and the generate-and-validate loop of            *)
(* generate_password.                                                       *)
(*                                                                          *)
(* A character is a one-character string, a password a sequence of          *)
(* characters.  Spec is the request handler generate_password, one step per *)
(* loop iteration; SpecCheck applies check_password_strength to candidates  *)
(* the handler can draw, among them every denylist entry in three casings.  *)
(***************************************************************************)
EXTENDS Integers, Sequences, FiniteSets

VARIABLES
    use_upper, use_lower, use_numbers, use_symbols,  \* app.py:88-91
    length,            \* app.py:87
    strength_level,    \* app.py:92
    char_set,          \* app.py:95-99
    pc,                \* position in the handler: "start", "loop", "done"
                       \* (SpecCheck: "call", "returned")
    attempt,           \* completed iterations of the loop at app.py:107
    password,          \* the candidate a response carries (SpecCheck: the argument)
    response,          \* the keys of the JSON object returned; {} before the return
    status,            \* HTTP status of the response; 0 before the return
    verdict,           \* what the last call of check_password_strength returned
    draws,             \* history: candidates drawn (the joins at app.py:108, 115)
    checks,            \* history: calls of check_password_strength
    rejected           \* history: calls that returned False

vars == <<use_upper, use_lower, use_numbers, use_symbols, length, strength_level,
          char_set, pc, attempt, password, response, status, verdict,
          draws, checks, rejected>>

(***************************************************************************)
(* Bounds                                                                  *)
(***************************************************************************)
\* Largest requested length the handler is run with.
MaxLen == 4

\* Longest prefix and suffix put around a denylist entry in SpecCheck.
MaxPad == 1

\* The characters the model draws: one of each class.  secrets.choice can
\* return any character of char_set; the model draws those of char_set
\* that are in this sample.
SampleChars == {"A", "a", "0", "!"}

(***************************************************************************)
(* Python's string constants                                               *)
(***************************************************************************)
ascii_uppercase ==
    <<"A","B","C","D","E","F","G","H","I","J","K","L","M",
      "N","O","P","Q","R","S","T","U","V","W","X","Y","Z">>

ascii_lowercase ==
    <<"a","b","c","d","e","f","g","h","i","j","k","l","m",
      "n","o","p","q","r","s","t","u","v","w","x","y","z">>

digits == <<"0","1","2","3","4","5","6","7","8","9">>

\* string.punctuation, 32 characters.  The grave accent (0x60) cannot be
\* written inside a TLA+ string; the string "grave" stands for it.
punctuation ==
    <<"!","\"","#","$","%","&","'","(",")","*","+",",","-",".","/",":",
      ";","<","=",">","?","@","[","\\","]","^","_","grave","{","|","}","~">>

Range(s) == {s[i] : i \in DOMAIN s}

\* str.lower() on the characters of the four classes: A-Z map to a-z, every
\* other character is unchanged.
lower_table ==
    [c \in Range(ascii_uppercase) \cup Range(ascii_lowercase)
           \cup Range(digits) \cup Range(punctuation) |->
        IF \E i \in DOMAIN ascii_uppercase : ascii_uppercase[i] = c
        THEN ascii_lowercase[CHOOSE i \in DOMAIN ascii_uppercase : ascii_uppercase[i] = c]
        ELSE c]

\* str.lower()
Lower(s) == [i \in DOMAIN s |-> lower_table[s[i]]]

\* The Python operator `w in s` on strings: w occurs in s as a substring.
Contains(s, w) ==
    \E i \in 0..(Len(s) - Len(w)) : \A j \in 1..Len(w) : s[i + j] = w[j]

\* str.isupper(), str.islower(), str.isdigit() on one character of the four
\* classes.
uppercase_letters == Range(ascii_uppercase)

lowercase_letters == Range(ascii_lowercase)

digit_characters == Range(digits)

punctuation_characters == Range(punctuation)

IsUpper(c) == c \in uppercase_letters

IsLower(c) == c \in lowercase_letters

IsDigit(c) == c \in digit_characters

(***************************************************************************)
(* The denylists                                                           *)
(***************************************************************************)
COMMON_WORDS ==
    << <<"p","a","s","s","w","o","r","d">>, <<"a","d","m","i","n">>,
       <<"w","e","l","c","o","m","e">>, <<"1","2","3","4","5","6">>,
       <<"q","w","e","r","t","y">>, <<"u","s","e","r">>, <<"g","u","e","s","t">>,
       <<"l","o","g","i","n">>, <<"t","e","s","t">>, <<"r","o","o","t">>,
       <<"s","e","c","r","e","t">>, <<"d","r","a","g","o","n">>,
       <<"s","h","a","d","o","w">>, <<"n","i","n","j","a">>,
       <<"f","o","o","t","b","a","l","l">>, <<"m","o","n","k","e","y">>,
       <<"m","a","s","t","e","r">>, <<"s","u","n","s","h","i","n","e">>,
       <<"p","r","i","n","c","e","s","s">>, <<"l","o","v","e">> >>

KEYBOARD_PATTERNS ==
    << <<"q","w","e","r","t","y">>, <<"a","s","d","f","g","h">>,
       <<"z","x","c","v","b","n">>, <<"1","2","3","4","5">>,
       <<"q","a","z","w","s","x">> >>

(***************************************************************************)
(* check_password_strength                                                 *)
(***************************************************************************)
\* app.py:45: any(word in password.lower() for word in COMMON_WORDS)
HasCommonWord(pw) ==
    LET lowered == Lower(pw)
    IN  \E k \in DOMAIN COMMON_WORDS : Contains(lowered, COMMON_WORDS[k])

\* app.py:48: re.search(r'(.)\1\1', password).  Without re.DOTALL the dot
\* matches every character but a newline.
HasRepeat(pw) ==
    \E i \in 1..(Len(pw) - 2) :
        /\ pw[i] # "\n"
        /\ pw[i + 1] = pw[i]
        /\ pw[i + 2] = pw[i]

\* app.py:51: any(pattern in password.lower() for pattern in KEYBOARD_PATTERNS)
HasKeyboardPattern(pw) ==
    LET lowered == Lower(pw)
    IN  \E k \in DOMAIN KEYBOARD_PATTERNS : Contains(lowered, KEYBOARD_PATTERNS[k])

has_upper(pw) == \E i \in DOMAIN pw : IsUpper(pw[i])

has_lower(pw) == \E i \in DOMAIN pw : IsLower(pw[i])

has_digit(pw) == \E i \in DOMAIN pw : IsDigit(pw[i])

has_symbol(pw) == \E i \in DOMAIN pw : pw[i] \in punctuation_characters

Bit(b) == IF b THEN 1 ELSE 0

\* app.py:60: sum([has_upper, has_lower, has_digit, has_symbol])
char_type_count(pw) ==
    Bit(has_upper(pw)) + Bit(has_lower(pw)) + Bit(has_digit(pw)) + Bit(has_symbol(pw))

\* Mutants of check_password_strength: a slip in one branch each.
check_easy_as_strong(pw, level) ==
    IF HasCommonWord(pw) THEN FALSE
    ELSE IF HasRepeat(pw) THEN FALSE
    ELSE IF HasKeyboardPattern(pw) THEN FALSE
    ELSE IF level \in {"easy", "strong"} THEN char_type_count(pw) >= 3
    ELSE IF level = "max" THEN char_type_count(pw) = 4
    ELSE FALSE

check_strong_two_types(pw, level) ==
    IF HasCommonWord(pw) THEN FALSE
    ELSE IF HasRepeat(pw) THEN FALSE
    ELSE IF HasKeyboardPattern(pw) THEN FALSE
    ELSE IF level = "easy" THEN TRUE
    ELSE IF level = "strong" THEN char_type_count(pw) >= 2
    ELSE IF level = "max" THEN char_type_count(pw) = 4
    ELSE FALSE

check_without_keyboard_rule(pw, level) ==
    IF HasCommonWord(pw) THEN FALSE
    ELSE IF HasRepeat(pw) THEN FALSE
    ELSE IF level = "easy" THEN TRUE
    ELSE IF level = "strong" THEN char_type_count(pw) >= 3
    ELSE IF level = "max" THEN char_type_count(pw) = 4
    ELSE FALSE

check_max_three_types(pw, level) ==
    IF HasCommonWord(pw) THEN FALSE
    ELSE IF HasRepeat(pw) THEN FALSE
    ELSE IF HasKeyboardPattern(pw) THEN FALSE
    ELSE IF level = "easy" THEN TRUE
    ELSE IF level = "strong" THEN char_type_count(pw) >= 3
    ELSE IF level = "max" THEN char_type_count(pw) >= 3
    ELSE FALSE

check_default_true(pw, level) ==
    IF HasCommonWord(pw) THEN FALSE
    ELSE IF HasRepeat(pw) THEN FALSE
    ELSE IF HasKeyboardPattern(pw) THEN FALSE
    ELSE IF level = "easy" THEN TRUE
    ELSE IF level = "strong" THEN char_type_count(pw) >= 3
    ELSE IF level = "max" THEN char_type_count(pw) = 4
    ELSE TRUE

\* app.py:34-75.  The universal rules return False first, in the order of
\* the source; the level decides only when none of them triggers.
check_password_strength(pw, level) ==
    IF HasCommonWord(pw) THEN FALSE
    ELSE IF HasRepeat(pw) THEN FALSE
    ELSE IF HasKeyboardPattern(pw) THEN FALSE
    ELSE IF level = "easy" THEN TRUE
    ELSE IF level = "strong" THEN char_type_count(pw) >= 3
    ELSE IF level = "max" THEN char_type_count(pw) = 4
    ELSE FALSE

\* The value a call returned, as the state records it.
Returned(b) == IF b THEN "True" ELSE "False"

(***************************************************************************)
(* generate_password                                                       *)
(***************************************************************************)
\* The values of the request's "strength" field: the three levels and one
\* value that is none of them.
Levels == {"easy", "strong", "max", "ultra"}

\* Mutant of MaxAttempts: range(101).
MaxAttemptsOneMore == 100 + 1

\* range(100) at app.py:107.
MaxAttempts == 100

\* Mutant of Candidates: range(length + 1).
CandidatesOneMore(cs, n) == [1..(n + 1) -> Range(cs) \cap SampleChars]

\* app.py:108, 115: ''.join(secrets.choice(char_set) for i in range(length)).
\* Every position is any character of char_set (of the sample); range(n) is
\* empty for n <= 0 and the join is then the empty string.
Candidates(cs, n) == [1..n -> Range(cs) \cap SampleChars]

Init ==
    /\ use_upper \in BOOLEAN
    /\ use_lower \in BOOLEAN
    /\ use_numbers \in BOOLEAN
    /\ use_symbols \in BOOLEAN
    /\ length \in (-1)..MaxLen
    /\ strength_level \in Levels
    /\ char_set = <<>>
    /\ pc = "start"
    /\ attempt = 0
    /\ password = <<>>
    /\ response = {}
    /\ status = 0
    /\ verdict = "none"
    /\ draws = 0
    /\ checks = 0
    /\ rejected = 0

request == <<use_upper, use_lower, use_numbers, use_symbols, length, strength_level>>

\* app.py:95-99
BuiltCharSet ==
    (IF use_upper THEN ascii_uppercase ELSE <<>>)
    \o (IF use_lower THEN ascii_lowercase ELSE <<>>)
    \o (IF use_numbers THEN digits ELSE <<>>)
    \o (IF use_symbols THEN punctuation ELSE <<>>)

\* Mutant of BuildCharSet: the test at app.py:101 left out.
BuildCharSetUnchecked ==
    /\ pc = "start"
    /\ char_set' = BuiltCharSet
    /\ pc' = "loop"
    /\ UNCHANGED <<request, attempt, password, response, status, verdict,
                   draws, checks, rejected>>

\* app.py:94-102: build the character set; with none, answer 400 at once.
BuildCharSet ==
    /\ pc = "start"
    /\ char_set' = BuiltCharSet
    /\ IF BuiltCharSet = <<>>
       THEN /\ pc' = "done"
            /\ response' = {"error"}
            /\ status' = 400
       ELSE /\ pc' = "loop"
            /\ UNCHANGED <<response, status>>
    /\ UNCHANGED <<request, attempt, password, verdict, draws, checks, rejected>>

\* Mutant of Attempt: an accepted candidate does not end the loop.
AttemptNoReturn ==
    /\ pc = "loop"
    /\ attempt < MaxAttempts
    /\ \E cand \in Candidates(char_set, length) :
        /\ draws' = draws + 1
        /\ checks' = checks + 1
        /\ verdict' = Returned(check_password_strength(cand, strength_level))
        /\ rejected' = IF verdict' = "True" THEN rejected ELSE rejected + 1
        /\ attempt' = attempt + 1
        /\ UNCHANGED <<pc, password, response, status>>
    /\ UNCHANGED <<request, char_set>>

\* app.py:107-110: one iteration of the loop.  The candidate is drawn and
\* checked; an accepted one is returned at once.  A rejected candidate is
\* never read again (the name is rebound at 108 or 115 first), so the state
\* does not keep it.
Attempt ==
    /\ pc = "loop"
    /\ attempt < MaxAttempts
    /\ \E cand \in Candidates(char_set, length) :
        /\ draws' = draws + 1
        /\ checks' = checks + 1
        /\ verdict' = Returned(check_password_strength(cand, strength_level))
        /\ IF verdict' = "True"
           THEN /\ password' = cand
                /\ response' = {"password"}
                /\ status' = 200
                /\ pc' = "done"
                /\ UNCHANGED <<attempt, rejected>>
           ELSE /\ attempt' = attempt + 1
                /\ rejected' = rejected + 1
                /\ UNCHANGED <<pc, password, response, status>>
    /\ UNCHANGED <<request, char_set>>

\* Mutant of Fallback: no draw after the loop; the candidate returned is one
\* the checker rejected.
FallbackReusesRejected ==
    /\ pc = "loop"
    /\ attempt = MaxAttempts
    /\ \E cand \in Candidates(char_set, length) :
        /\ ~check_password_strength(cand, strength_level)
        /\ password' = cand
        /\ response' = {"password", "warning"}
        /\ status' = 200
        /\ pc' = "done"
    /\ UNCHANGED <<request, char_set, attempt, verdict, draws, checks, rejected>>

\* app.py:112-119: the loop ran out; one more candidate is drawn and returned
\* with the warning, unchecked.
Fallback ==
    /\ pc = "loop"
    /\ attempt = MaxAttempts
    /\ \E cand \in Candidates(char_set, length) :
        /\ draws' = draws + 1
        /\ password' = cand
        /\ response' = {"password", "warning"}
        /\ status' = 200
        /\ pc' = "done"
    /\ UNCHANGED <<request, char_set, attempt, verdict, checks, rejected>>

Next == BuildCharSet \/ Attempt \/ Fallback

Spec == Init /\ [][Next]_vars

(***************************************************************************)
(* check_password_strength on its own                                      *)
(***************************************************************************)
\* The inverse of str.lower() on a-z, to spell the denylist entries in
\* upper case.
UpperChar(c) ==
    IF c \in lowercase_letters
    THEN ascii_uppercase[CHOOSE i \in DOMAIN ascii_lowercase : ascii_lowercase[i] = c]
    ELSE c

Casings(w) ==
    { w,
      [i \in DOMAIN w |-> UpperChar(w[i])],
      [i \in DOMAIN w |-> IF i = 1 THEN UpperChar(w[i]) ELSE w[i]] }

DenylistEntries == Range(COMMON_WORDS) \cup Range(KEYBOARD_PATTERNS)

StringsUpTo(n) == UNION {[1..k -> SampleChars] : k \in 0..n}

\* The candidates check_password_strength is applied to: every string of
\* sample characters up to MaxLen, and every denylist entry, in lower case,
\* upper case and capitalised, between a prefix and a suffix of at most
\* MaxPad sample characters.  All of them are strings the handler draws when
\* the four classes are enabled.
CheckInputs ==
    StringsUpTo(MaxLen)
    \cup { pre \o mid \o suf :
             pre \in StringsUpTo(MaxPad),
             mid \in UNION {Casings(w) : w \in DenylistEntries},
             suf \in StringsUpTo(MaxPad) }

InitCheck ==
    /\ use_upper = TRUE
    /\ use_lower = TRUE
    /\ use_numbers = TRUE
    /\ use_symbols = TRUE
    /\ password \in CheckInputs
    /\ length = Len(password)
    /\ strength_level \in Levels
    /\ char_set = BuiltCharSet
    /\ pc = "call"
    /\ attempt = 0
    /\ response = {}
    /\ status = 0
    /\ verdict = "none"
    /\ draws = 1
    /\ checks = 0
    /\ rejected = 0

\* app.py:109: the call check_password_strength(password, strength_level).
CheckCall ==
    /\ pc = "call"
    /\ verdict' = Returned(check_password_strength(password, strength_level))
    /\ checks' = checks + 1
    /\ rejected' = IF verdict' = "True" THEN rejected ELSE rejected + 1
    /\ pc' = "returned"
    /\ UNCHANGED <<request, char_set, attempt, password, response, status, draws>>

NextCheck == CheckCall

SpecCheck == InitCheck /\ [][NextCheck]_vars

(***************************************************************************)
(* Properties                                                              *)
(***************************************************************************)
AnyFlag == use_upper \/ use_lower \/ use_numbers \/ use_symbols

AllFlags == use_upper /\ use_lower /\ use_numbers /\ use_symbols

Success == response = {"password"}

Warning == response = {"password", "warning"}

\* The number of the four character types that occur in pw.
Diversity(pw) ==
    Cardinality({ S \in {uppercase_letters, lowercase_letters,
                         digit_characters, punctuation_characters} :
                    Range(pw) \cap S # {} })

\* Three equal characters in a row.
HasTripleRun(pw) ==
    \E i \in 1..(Len(pw) - 2) : pw[i] = pw[i + 1] /\ pw[i + 1] = pw[i + 2]

\* w occurs in pw when case is ignored (w is in lower case).
OccursIgnoringCase(w, pw) ==
    \E i \in 0..(Len(pw) - Len(w)) :
        \A j \in 1..Len(w) : lower_table[pw[i + j]] = w[j]

OnCommonWordList(pw) == \E w \in Range(COMMON_WORDS) : OccursIgnoringCase(w, pw)

OnKeyboardList(pw) == \E w \in Range(KEYBOARD_PATTERNS) : OccursIgnoringCase(w, pw)

\* C1 as stated: with at least one class enabled and level 'easy', generate
\* always returns the success outcome {password}, never the warning outcome.
C1_EasyAlwaysSuccess ==
    (strength_level = "easy" /\ AnyFlag /\ pc = "done") => Success

\* C1 amended: with at least one class enabled and level 'easy', a candidate
\* is rejected exactly when it triggers a universal rule (so never when
\* length <= 2); generate returns {password} with the first candidate that
\* triggers none, returns {password, warning} only after 100 rejected
\* candidates, and never returns an error.
C1_EasySucceedsUnlessUniversalRules ==
    (strength_level = "easy" /\ AnyFlag) =>
        /\ (pc = "loop" /\ attempt = 0) =>
               \A cand \in Candidates(char_set, length) :
                   check_password_strength(cand, strength_level)
                   <=> ~(HasTripleRun(cand) \/ OnCommonWordList(cand) \/ OnKeyboardList(cand))
        /\ rejected > 0 => length >= 3
        /\ pc = "done" =>
            \/ Success /\ ~HasTripleRun(password)
                       /\ ~OnCommonWordList(password) /\ ~OnKeyboardList(password)
            \/ Warning /\ rejected = 100 /\ length >= 3

C1_Witness ==
    /\ strength_level = "easy" /\ AnyFlag /\ pc = "done"
    /\ Warning /\ rejected = 100 /\ length = 3

\* An upper bound on the steps the handler has left: the character-set
\* step, the iterations of the loop not yet run, the draw after the loop.
StepsLeft ==
    IF pc = "start" THEN 102
    ELSE IF pc = "loop" THEN 101 - attempt
    ELSE 0

\* C2: with a non-empty alphabet generate terminates with an outcome that
\* carries a password; at most 100 candidates are submitted to the checker
\* and at most one more is drawn, so no execution makes more than 101 draws.
\* Termination: until the handler has returned a step is possible, and
\* every step lowers StepsLeft, which is never negative.
C2_TerminatesWithinBudget ==
    /\ [](checks <= 100 /\ draws <= checks + 1 /\ draws <= 101)
    /\ [](StepsLeft >= 0)
    /\ [](AnyFlag => IF pc = "done" THEN "password" \in response ELSE ENABLED Next)
    /\ [][StepsLeft' < StepsLeft]_vars

C2_Witness ==
    /\ pc = "done" /\ "password" \in response
    /\ strength_level = "ultra" /\ checks = 100 /\ draws = 101

\* C3: a password returned without warning meets the level's threshold: at
\* least 3 of the four character types at 'strong', all 4 at 'max'.
C3_SuccessMeetsDiversity ==
    Success =>
        /\ strength_level = "strong" => Diversity(password) >= 3
        /\ strength_level = "max" => Diversity(password) = 4

C3_Witness ==
    /\ pc = "done" /\ Success
    /\ strength_level = "max" /\ Diversity(password) = 4 /\ attempt > 0

\* C4: a candidate the checker accepts, at any level, has no run of three
\* equal characters, and its lower-case form contains no common word and no
\* keyboard pattern; a candidate that triggers one of these is rejected
\* whatever the level.
C4_AcceptedPassesUniversalRules ==
    (pc = "returned" /\ verdict = "True") =>
        /\ ~HasTripleRun(password)
        /\ ~OnCommonWordList(password)
        /\ ~OnKeyboardList(password)

C4_Witness ==
    /\ pc = "returned" /\ verdict = "False" /\ strength_level = "easy"
    /\ OnKeyboardList(password)
    /\ ~OnCommonWordList(password) /\ ~HasTripleRun(password)
    /\ password # Lower(password)

\* C5: with the four flags false generate ends in the error outcome, which
\* carries no password, without a draw and without a call of the checker.
C5_NoFlagsErrorWithoutDraw ==
    ~AnyFlag =>
        /\ draws = 0 /\ checks = 0 /\ pc # "loop"
        /\ pc = "done" => (response = {"error"} /\ status = 400)

C5_Witness ==
    ~AnyFlag /\ pc = "done" /\ response = {"error"} /\ length = MaxLen

\* C6: with only some of the four classes enabled and level 'max' no
\* candidate is accepted: generate rejects 100 candidates and returns
\* {password, warning}, never {password}.
C6_PartialPolicyMaxWarns ==
    (AnyFlag /\ ~AllFlags /\ strength_level = "max") =>
        /\ verdict # "True"
        /\ ~Success
        /\ pc = "done" => (Warning /\ checks = 100 /\ rejected = 100)

C6_Witness ==
    /\ ~use_upper /\ ~use_lower /\ use_numbers /\ ~use_symbols
    /\ strength_level = "max" /\ pc = "done" /\ Warning /\ length = MaxLen

\* C7: for a level other than 'easy', 'strong', 'max' the checker rejects
\* every candidate; with a non-empty alphabet generate returns neither
\* {password} nor an error: it uses the 100 attempts and returns the warning.
C7_UnknownLevelWarns ==
    (strength_level \notin {"easy", "strong", "max"} /\ AnyFlag) =>
        /\ verdict # "True"
        /\ ~Success
        /\ "error" \notin response
        /\ pc = "done" => (Warning /\ checks = 100 /\ rejected = 100)

C7_Witness ==
    /\ strength_level \notin {"easy", "strong", "max"} /\ AllFlags
    /\ pc = "done" /\ Warning /\ Diversity(password) = 4

\* C8: with a non-empty alphabet generate returns {password} exactly when an
\* attempt is accepted, with that attempt's candidate, every earlier attempt
\* rejected and no draw after it; it returns {password, warning} exactly
\* when 100 attempts were rejected; it returns nothing else.
C8_OutcomeMatchesAttempts ==
    AnyFlag =>
        /\ pc = "done" => (Success \/ Warning)
        /\ Success <=> verdict = "True"
        /\ Success =>
            /\ pc = "done"
            /\ check_password_strength(password, strength_level)
            /\ checks <= 100 /\ rejected = checks - 1 /\ draws = checks
        /\ Warning <=> (pc = "done" /\ rejected = 100)
        /\ Warning => checks = 100

C8_Witness ==
    /\ AnyFlag /\ pc = "done" /\ Success
    /\ rejected = 99 /\ checks = 100 /\ draws = 100

\* c belongs to a class the request enables.
EnabledChar(c) ==
    \/ use_upper /\ c \in uppercase_letters
    \/ use_lower /\ c \in lowercase_letters
    \/ use_numbers /\ c \in digit_characters
    \/ use_symbols /\ c \in punctuation_characters

\* C9: for length >= 0 and a non-empty alphabet the password of either
\* outcome has exactly `length` characters, each from the alphabet, which is
\* the enabled classes in the order upper, lower, digit, symbol.
C9_PasswordLengthAndAlphabet ==
    ("password" \in response /\ length >= 0) =>
        /\ Len(password) = length
        /\ \A i \in DOMAIN password : EnabledChar(password[i])
        /\ char_set = SelectSeq(ascii_uppercase \o ascii_lowercase \o digits \o punctuation,
                                EnabledChar)

C9_Witness ==
    /\ pc = "done" /\ Warning /\ length = MaxLen /\ Len(password) = MaxLen
    /\ use_upper /\ ~use_lower /\ use_numbers /\ ~use_symbols
    /\ Diversity(password) = 2

=============================================================================
